---- MODULE Spec2Model ----
(***************************************************************************)
(* Model of nvblox_examples_bringup/launch/realsense_example.launch.py.    *)
(*                                                                         *)
(* generate_launch_description() builds a list of launch actions whose     *)
(* conditions and arguments are substitutions: they are evaluated only     *)
(* when the launch service visits the action, against the launch           *)
(* configurations in force at that moment.  The model keeps that split:    *)
(* the action list holds substitution trees, and the visiting steps        *)
(* evaluate them.                                                          *)
(*                                                                         *)
(* Strings are TLA+ strings, except the value of num_cameras, which the    *)
(* script parses with int(...): it is kept as its sequence of characters.  *)
(* Booleans of the substitution system are the texts "True" and "False",   *)
(* as PythonExpression produces them and IfCondition reads them.           *)
(***************************************************************************)
EXTENDS Integers, Sequences, FiniteSets, TLC

VARIABLES
    cli,                    \* arguments given on the command line / by the includer
    pc,                     \* "init", "visiting", "idle", "asserted", "error"
    actions,                \* the LaunchDescription returned by the script
    idx,                    \* next entity of the description to visit
    launch_configurations,  \* context.launch_configurations
    global_params,          \* parameters set launch-wide by SetParameter
    executed,               \* the actions executed so far, in order
    timers                  \* indices of TimerActions waiting to fire

vars == <<cli, pc, actions, idx, launch_configurations, global_params, executed, timers>>

----------------------------------------------------------------------------
(* Bounds of the input space *)

MaxDigit == 5       \* largest digit character tried in the text of num_cameras

----------------------------------------------------------------------------
(* Text of an integer *)

DigitChars == {"0", "1", "2", "3", "4", "5", "6", "7", "8", "9"}

DigitOf(c) ==
    CASE c = "0" -> 0 [] c = "1" -> 1 [] c = "2" -> 2 [] c = "3" -> 3
      [] c = "4" -> 4 [] c = "5" -> 5 [] c = "6" -> 6 [] c = "7" -> 7
      [] c = "8" -> 8 [] c = "9" -> 9

RECURSIVE DigitsValue(_)
DigitsValue(s) ==
    IF s = <<>> THEN 0
    ELSE 10 * DigitsValue(SubSeq(s, 1, Len(s) - 1)) + DigitOf(s[Len(s)])

AllDigits(s) == \A i \in 1..Len(s) : s[i] \in DigitChars

\* whether Python's int(text) accepts the text (sign, then at least one digit)
IsIntText(s) ==
    /\ Len(s) >= 1
    /\ IF s[1] = "-" THEN Len(s) >= 2 /\ AllDigits(Tail(s)) ELSE AllDigits(s)

\* the value of Python's int(text)
IntOf(s) == IF s[1] = "-" THEN 0 - DigitsValue(Tail(s)) ELSE DigitsValue(s)

----------------------------------------------------------------------------
(* Substitutions: built by the script, evaluated by the launch service *)

Exception == "<exception>"      \* a substitution that raised while being performed

Text(v) == [op |-> "Text", v |-> v]
LaunchConfiguration(n) == [op |-> "LaunchConfiguration", name |-> n]
OrSubstitution(a, b) == [op |-> "Or", a |-> a, b |-> b]
NotSubstitution(a) == [op |-> "Not", a |-> a]
\* PythonExpression(['int("', sub, '") > ', n])
IntGreaterExpression(a, n) == [op |-> "IntGreater", a |-> a, n |-> n]

\* isaac_ros_launch_utils helpers used by the script
is_equal(a, b) == [op |-> "Equal", a |-> a, b |-> Text(b)]
is_true(a) == is_equal(a, "True")
is_false(a) == is_equal(a, "False")
\* a value that is neither the text of None nor empty
is_valid(a) == NotSubstitution(OrSubstitution(is_equal(a, "None"), is_equal(a, "")))
if_else_substitution(c, a, b) == [op |-> "IfElse", c |-> c, a |-> Text(a), b |-> Text(b)]

PyBool(b) == IF b THEN "True" ELSE "False"

RECURSIVE Perform(_, _)
Perform(sub, cfg) ==
    CASE sub.op = "Text" -> sub.v
      [] sub.op = "LaunchConfiguration" -> cfg[sub.name]
      [] sub.op = "Equal" -> PyBool(Perform(sub.a, cfg) = Perform(sub.b, cfg))
      [] sub.op = "Or" -> PyBool(Perform(sub.a, cfg) = "True" \/ Perform(sub.b, cfg) = "True")
      [] sub.op = "Not" -> PyBool(Perform(sub.a, cfg) # "True")
      [] sub.op = "IfElse" ->
            IF Perform(sub.c, cfg) = "True" THEN Perform(sub.a, cfg) ELSE Perform(sub.b, cfg)
      [] sub.op = "IntGreater" ->
            LET t == Perform(sub.a, cfg)
            IN  IF IsIntText(t) THEN PyBool(IntOf(t) > sub.n) ELSE Exception

\* Conditions: kind is "none", "If" or "Unless"
NoCondition == [kind |-> "none", sub |-> Text("True")]
IfCondition(s) == [kind |-> "If", sub |-> s]
UnlessCondition(s) == [kind |-> "Unless", sub |-> s]

TrueTexts == {"true", "True", "1"}
FalseTexts == {"false", "False", "0"}

\* Condition.evaluate: "True", "False", or Exception when the text is no boolean
Evaluate(cond, cfg) ==
    IF cond.kind = "none" THEN "True"
    ELSE LET t == Perform(cond.sub, cfg)
             b == IF t \in TrueTexts THEN "True"
                  ELSE IF t \in FalseTexts THEN "False" ELSE Exception
         IN  IF cond.kind = "If" \/ b = Exception THEN b
             ELSE PyBool(b = "False")

----------------------------------------------------------------------------
(* The script: generate_launch_description *)

NVBLOX_CONTAINER_NAME == "nvblox_container"
NvbloxCamera_realsense == "realsense"
NvbloxCamera_multi_realsense == "multi_realsense"
NvbloxMode_static == "static"
NvbloxMode_names == {"static", "people_segmentation", "people_detection", "dynamic"}
DefaultUrdfPath ==
    "nvblox_examples_bringup/config/urdf/4_realsense_carter_example_calibration.urdf.xacro"

ArgNames ==
    <<"rosbag", "rosbag_args", "log_level", "num_cameras", "camera_serial_numbers",
      "multicam_urdf_path", "mode", "attach_to_container", "container_name",
      "run_realsense", "navigation">>

\* default of each argument, as the text ArgumentContainer declares it with
ArgDefault(n) ==
    CASE n = "rosbag" -> "None"
      [] n = "rosbag_args" -> ""
      [] n = "log_level" -> "info"
      [] n = "num_cameras" -> <<"1">>
      [] n = "camera_serial_numbers" -> ""
      [] n = "multicam_urdf_path" -> DefaultUrdfPath
      [] n = "mode" -> NvbloxMode_static
      [] n = "attach_to_container" -> "False"
      [] n = "container_name" -> NVBLOX_CONTAINER_NAME
      [] n = "run_realsense" -> "True"
      [] n = "navigation" -> "True"

\* args.<name>
Arg(n) == LaunchConfiguration(n)

NoArguments == [none |-> Text("")]

BaseAction ==
    [kind |-> "", name |-> "", condition |-> NoCondition, launch_arguments |-> NoArguments,
     delay |-> 0, value |-> Text(""), package |-> "", executable |-> "",
     path |-> "", parameters |-> [none |-> ""], remappings |-> {}, log_level |-> Text("")]

DeclareLaunchArgument(n) ==
    [BaseAction EXCEPT !.kind = "DeclareLaunchArgument", !.name = n]

\* args.get_launch_actions()
get_launch_actions == [i \in 1..Len(ArgNames) |-> DeclareLaunchArgument(ArgNames[i])]

\* lu.include(package, path, launch_arguments, condition, delay): an
\* IncludeLaunchDescription, wrapped in a TimerAction when a delay is given
include(package, path, launch_arguments, condition, delay) ==
    [BaseAction EXCEPT !.kind = "IncludeLaunchDescription", !.name = path,
                       !.package = package, !.path = path,
                       !.launch_arguments = launch_arguments,
                       !.condition = condition, !.delay = delay]

\* use_sim_time set whatever rosbag is
set_use_sim_time_always ==
    [BaseAction EXCEPT !.kind = "SetParameter", !.name = "use_sim_time",
                       !.value = Text("True")]

\* Globally set use_sim_time if we're running from bag or sim
set_use_sim_time ==
    [BaseAction EXCEPT !.kind = "SetParameter", !.name = "use_sim_time",
                       !.value = Text("True"),
                       !.condition = IfCondition(is_valid(Arg("rosbag")))]

navigation_include ==
    include("nvblox_examples_bringup",
            "launch/navigation/nvblox_newton_navigation.launch.py",
            [container_name |-> Text(NVBLOX_CONTAINER_NAME), mode |-> Arg("mode")],
            IfCondition(is_true(Arg("navigation"))), 0)

\* Single or Multi-realsense ('1' is compared as text with the argument's text)
is_multi_cam == UnlessCondition(is_equal(Arg("num_cameras"), <<"1">>))

\* the two camera modes exchanged
camera_mode_swapped ==
    if_else_substitution(is_equal(Arg("num_cameras"), <<"1">>),
                         NvbloxCamera_multi_realsense, NvbloxCamera_realsense)


camera_mode ==
    if_else_substitution(is_equal(Arg("num_cameras"), <<"1">>),
                         NvbloxCamera_realsense, NvbloxCamera_multi_realsense)

MaxTestedCameras == 4

\* the assertion with its limit one too high
assert_num_cameras_off_by_one ==
    [BaseAction EXCEPT !.kind = "assert_condition",
                       !.name = "Up to 4 cameras have been tested! num_cameras must be less than 5.",
                       !.condition =
                           IfCondition(IntGreaterExpression(Arg("num_cameras"),
                                                            MaxTestedCameras + 1))]

\* Only up to 4 Realsenses is supported.
assert_num_cameras ==
    [BaseAction EXCEPT !.kind = "assert_condition",
                       !.name = "Up to 4 cameras have been tested! num_cameras must be less than 5.",
                       !.condition =
                           IfCondition(IntGreaterExpression(Arg("num_cameras"), MaxTestedCameras))]

\* the driver condition without the rosbag test
run_rs_driver_ignores_rosbag == UnlessCondition(is_false(Arg("run_realsense")))


run_rs_driver ==
    UnlessCondition(OrSubstitution(is_valid(Arg("rosbag")), is_false(Arg("run_realsense"))))

realsense_include ==
    include("nvblox_examples_bringup", "launch/sensors/realsense.launch.py",
            [container_name |-> Arg("container_name"),
             camera_serial_numbers |-> Arg("camera_serial_numbers"),
             num_cameras |-> Arg("num_cameras")],
            run_rs_driver, 0)

\* the visual SLAM include without its delay
vslam_include_undelayed ==
    include("nvblox_examples_bringup", "launch/perception/vslam.launch.py",
            [container_name |-> Arg("container_name"), camera |-> camera_mode],
            NoCondition, 0)

\* Delay for 1 second to make sure that the static topics from the rosbag are published.
vslam_include ==
    include("nvblox_examples_bringup", "launch/perception/vslam.launch.py",
            [container_name |-> Arg("container_name"), camera |-> camera_mode],
            NoCondition, 1)

nvblox_include ==
    include("nvblox_examples_bringup", "launch/perception/nvblox.launch.py",
            [container_name |-> Arg("container_name"), mode |-> Arg("mode"),
             camera |-> camera_mode, num_cameras |-> Arg("num_cameras")],
            NoCondition, 0)

\* EKF node for mashing IMU and vSLAM
ekf_parameters ==
    [use_sim_time |-> "False",
     frequency |-> "30.0",
     sensor_timeout |-> "0.1",
     two_d_mode |-> "False",
     map_frame |-> "map",
     odom_frame |-> "odom",
     base_link_frame |-> "camera0_link",
     world_frame |-> "odom",
     odom0 |-> "/visual_slam/tracking/odometry",
     odom0_config |-> <<TRUE, TRUE, FALSE,
                        FALSE, FALSE, TRUE,
                        FALSE, FALSE, FALSE,
                        FALSE, FALSE, TRUE,
                        FALSE, FALSE, FALSE>>,
     odom0_queue_size |-> "10",
     odom0_nodelay |-> "True",
     odom0_differential |-> "False",
     odom0_relative |-> "False",
     imu0 |-> "/imu_data",
     imu0_config |-> <<FALSE, FALSE, FALSE,
                       TRUE, TRUE, TRUE,
                       FALSE, FALSE, FALSE,
                       TRUE, TRUE, TRUE,
                       TRUE, TRUE, TRUE>>,
     imu0_queue_size |-> "10",
     imu0_nodelay |-> "True",
     imu0_differential |-> "False",
     imu0_relative |-> "False",
     imu0_remove_gravitational_acceleration |-> "True"]

\* the node with one axis of the IMU mask switched on
ekf_node_altered ==
    [BaseAction EXCEPT !.kind = "Node", !.name = "ekf_filter_node",
                       !.package = "robot_localization", !.executable = "ekf_node",
                       !.parameters = [ekf_parameters EXCEPT !.imu0_config[1] = TRUE],
                       !.remappings = {<<"/odometry/filtered", "/odom">>}]

ekf_node ==
    [BaseAction EXCEPT !.kind = "Node", !.name = "ekf_filter_node",
                       !.package = "robot_localization", !.executable = "ekf_node",
                       !.parameters = ekf_parameters,
                       !.remappings = {<<"/odometry/filtered", "/odom">>}]

\* TF transforms for multi-realsense
robot_description ==
    [BaseAction EXCEPT !.kind = "add_robot_description", !.name = "robot_description",
                       !.launch_arguments =
                           [robot_calibration_path |-> Arg("multicam_urdf_path")],
                       !.condition = is_multi_cam]

\* Play ros2bag
play_rosbag ==
    [BaseAction EXCEPT !.kind = "play_rosbag", !.name = "play_rosbag",
                       !.launch_arguments =
                           [bag_path |-> Arg("rosbag"),
                            additional_bag_play_args |-> Arg("rosbag_args")],
                       !.condition = IfCondition(is_valid(Arg("rosbag")))]

\* the container started when attaching, and not otherwise
component_container_inverted ==
    [BaseAction EXCEPT !.kind = "component_container", !.name = NVBLOX_CONTAINER_NAME,
                       !.condition = IfCondition(Arg("attach_to_container")),
                       !.log_level = Arg("log_level")]

\* Container
component_container ==
    [BaseAction EXCEPT !.kind = "component_container", !.name = NVBLOX_CONTAINER_NAME,
                       !.condition = UnlessCondition(Arg("attach_to_container")),
                       !.log_level = Arg("log_level")]

generate_launch_description ==
    get_launch_actions \o
    <<set_use_sim_time, navigation_include, assert_num_cameras, realsense_include,
      vslam_include, nvblox_include, ekf_node, robot_description, play_rosbag,
      component_container>>

----------------------------------------------------------------------------
(* The values the arguments are launched with *)

NotGiven(d) == [given |-> FALSE, value |-> d]
Given(v) == [given |-> TRUE, value |-> v]

InputChars == {"-"} \cup {c \in DigitChars : DigitOf(c) <= MaxDigit}
\* texts of one or two characters: "3", "05", "-1", "15", and malformed ones such as "1-"
NumCamerasTexts == {<<a>> : a \in InputChars} \cup {<<a, b>> : a, b \in InputChars}

RosbagInputs == {NotGiven("None"), Given(""), Given("/data/bag")}
LogLevelInputs == {NotGiven("info"), Given("debug")}
NumCamerasInputs == {NotGiven(<<"1">>)} \cup {Given(t) : t \in NumCamerasTexts}
ModeInputs == {NotGiven(NvbloxMode_static), Given("dynamic")}
AttachInputs == {NotGiven("False"), Given("True")}
ContainerNameInputs == {NotGiven(NVBLOX_CONTAINER_NAME), Given("my_container")}
RunRealsenseInputs == {NotGiven("True"), Given("False")}
NavigationInputs == {NotGiven("True"), Given("False")}

----------------------------------------------------------------------------
(* The launch service *)

Init ==
    /\ \E rosbag \in RosbagInputs, log_level \in LogLevelInputs,
          num_cameras \in NumCamerasInputs, mode \in ModeInputs,
          attach_to_container \in AttachInputs, container_name \in ContainerNameInputs,
          run_realsense \in RunRealsenseInputs, navigation \in NavigationInputs :
            cli = [rosbag |-> rosbag, rosbag_args |-> NotGiven(""),
                   log_level |-> log_level, num_cameras |-> num_cameras,
                   camera_serial_numbers |-> NotGiven(""),
                   multicam_urdf_path |-> NotGiven(DefaultUrdfPath),
                   mode |-> mode, attach_to_container |-> attach_to_container,
                   container_name |-> container_name, run_realsense |-> run_realsense,
                   navigation |-> navigation]
    /\ pc = "init"
    /\ actions = <<>>
    /\ idx = 1
    /\ launch_configurations = [n \in {m \in DOMAIN cli : cli[m].given} |-> cli[n].value]
    /\ global_params = [n \in {} |-> ""]
    /\ executed = <<>>
    /\ timers = {}

\* the launch file is loaded: generate_launch_description() returns the description
Generate ==
    /\ pc = "init"
    /\ actions' = generate_launch_description
    /\ pc' = "visiting"
    /\ UNCHANGED <<cli, idx, launch_configurations, global_params, executed, timers>>

Visiting == pc = "visiting" /\ idx <= Len(actions)
Current == actions[idx]
Active == Evaluate(Current.condition, launch_configurations)

Resolve(largs) == [k \in DOMAIN largs |-> Perform(largs[k], launch_configurations)]

\* parameters a node starts with: the launch-wide ones, overridden by its own
EffectiveParameters(own, global) ==
    [k \in DOMAIN global \cup DOMAIN own |-> IF k \in DOMAIN own THEN own[k] ELSE global[k]]

Record(e) ==
    [kind |-> e.kind, name |-> e.name, arguments |-> Resolve(e.launch_arguments),
     parameters |-> IF e.kind = "Node"
                    THEN EffectiveParameters(e.parameters, global_params)
                    ELSE e.parameters,
     remappings |-> e.remappings,
     log_level |-> Perform(e.log_level, launch_configurations)]

\* Action.visit of an action whose condition evaluates to false
Skip ==
    /\ Visiting /\ Active = "False"
    /\ idx' = idx + 1
    /\ UNCHANGED <<cli, pc, actions, launch_configurations, global_params, executed, timers>>

\* a condition that cannot be evaluated ends the launch
ConditionError ==
    /\ Visiting /\ Active = Exception
    /\ pc' = "error"
    /\ timers' = {}
    /\ UNCHANGED <<cli, actions, idx, launch_configurations, global_params, executed>>

\* DeclareLaunchArgument.execute: the default applies unless a value was given
VisitDeclareLaunchArgument ==
    /\ Visiting /\ Active = "True" /\ Current.kind = "DeclareLaunchArgument"
    /\ launch_configurations' =
           IF Current.name \in DOMAIN launch_configurations
           THEN launch_configurations
           ELSE [n \in DOMAIN launch_configurations \cup {Current.name} |->
                    IF n = Current.name THEN ArgDefault(n) ELSE launch_configurations[n]]
    /\ idx' = idx + 1
    /\ UNCHANGED <<cli, pc, actions, global_params, executed, timers>>

VisitSetParameter ==
    /\ Visiting /\ Active = "True" /\ Current.kind = "SetParameter"
    /\ global_params' =
           [n \in DOMAIN global_params \cup {Current.name} |->
               IF n = Current.name THEN Perform(Current.value, launch_configurations)
               ELSE global_params[n]]
    /\ executed' = Append(executed, Record(Current))
    /\ idx' = idx + 1
    /\ UNCHANGED <<cli, pc, actions, launch_configurations, timers>>

\* the failed assertion raises and the launch is shut down
VisitAssert ==
    /\ Visiting /\ Active = "True" /\ Current.kind = "assert_condition"
    /\ pc' = "asserted"
    /\ timers' = {}
    /\ UNCHANGED <<cli, actions, idx, launch_configurations, global_params, executed>>

\* TimerAction.execute: the wrapped include waits for its period
VisitDelayed ==
    /\ Visiting /\ Active = "True" /\ Current.delay > 0
    /\ timers' = timers \cup {idx}
    /\ idx' = idx + 1
    /\ UNCHANGED <<cli, pc, actions, launch_configurations, global_params, executed>>

\* every other action is executed where it stands in the description
VisitExecute ==
    /\ Visiting /\ Active = "True" /\ Current.delay = 0
    /\ Current.kind \in {"IncludeLaunchDescription", "Node", "add_robot_description",
                         "play_rosbag", "component_container"}
    /\ executed' = Append(executed, Record(Current))
    /\ idx' = idx + 1
    /\ UNCHANGED <<cli, pc, actions, launch_configurations, global_params, timers>>

\* The description is visited in one synchronous pass of the event loop; a
\* timer's period can only elapse once that pass has returned.
TimerMayFire == pc = "visiting" /\ idx > Len(actions)

TimerFire(i) ==
    /\ TimerMayFire /\ i \in timers
    /\ executed' = Append(executed, Record(actions[i]))
    /\ timers' = timers \ {i}
    /\ UNCHANGED <<cli, pc, actions, idx, launch_configurations, global_params>>

\* everything is started; the launch service now only waits for its processes
Idle ==
    /\ pc = "visiting" /\ idx > Len(actions) /\ timers = {}
    /\ pc' = "idle"
    /\ UNCHANGED <<cli, actions, idx, launch_configurations, global_params, executed, timers>>

Next ==
    \/ Generate
    \/ Skip
    \/ ConditionError
    \/ VisitDeclareLaunchArgument
    \/ VisitSetParameter
    \/ VisitAssert
    \/ VisitDelayed
    \/ VisitExecute
    \/ \E i \in 1..Len(actions) : TimerFire(i)
    \/ Idle

Spec == Init /\ [][Next]_vars

\* the event loop keeps running: a visit, a due timer or going idle is not postponed forever
FairSpec == Spec /\ WF_vars(Next)

TypeOK == pc \in {"init", "visiting", "idle", "asserted", "error"}

----------------------------------------------------------------------------
(* Vocabulary of the properties *)

NavigationPath == "launch/navigation/nvblox_newton_navigation.launch.py"
RealsensePath == "launch/sensors/realsense.launch.py"
VslamPath == "launch/perception/vslam.launch.py"
NvbloxPath == "launch/perception/nvblox.launch.py"

Generated == pc # "init"
\* every argument has been declared: the launch configurations are complete
Declared == Generated /\ idx > Len(ArgNames)

PositionsOfKind(k) == {i \in 1..Len(actions) : actions[i].kind = k}
PositionOfKind(k) == CHOOSE i \in 1..Len(actions) : actions[i].kind = k
PositionOfName(n) == CHOOSE i \in 1..Len(actions) : actions[i].name = n
IsActive(i) == Evaluate(actions[i].condition, launch_configurations) = "True"

ExecutedKind(k) == {i \in 1..Len(executed) : executed[i].kind = k}
ExecutedName(n) == {i \in 1..Len(executed) : executed[i].name = n}

NumCameras == launch_configurations["num_cameras"]
RosbagSet == launch_configurations["rosbag"] \notin {"None", ""}
Launching == {"IncludeLaunchDescription", "Node", "add_robot_description",
              "play_rosbag", "component_container"}

----------------------------------------------------------------------------
(* C1: with num_cameras 1, 2, 3 or 4 the assertion does not fire, and the  *)
(* vslam and the nvblox include both receive camera 'realsense' for 1 and  *)
(* 'multi_realsense' for 2, 3 and 4.                                       *)
C1_CameraMode ==
    (Declared /\ NumCameras \in {<<"1">>, <<"2">>, <<"3">>, <<"4">>}) =>
        /\ pc # "asserted"
        /\ pc = "visiting" /\ idx = PositionOfKind("assert_condition") => ~IsActive(idx)
        /\ \A i \in ExecutedName(VslamPath) \cup ExecutedName(NvbloxPath) :
              executed[i].arguments.camera =
                 IF NumCameras = <<"1">> THEN "realsense" ELSE "multi_realsense"
        /\ pc = "idle" => ExecutedName(VslamPath) # {} /\ ExecutedName(NvbloxPath) # {}

C1_Witness ==
    /\ pc = "idle" /\ NumCameras = <<"3">>
    /\ \E i \in ExecutedName(VslamPath) : executed[i].arguments.camera = "multi_realsense"
    /\ \E i \in ExecutedName(NvbloxPath) : executed[i].arguments.camera = "multi_realsense"

(* C2: for an integer num_cameras the assertion fires exactly when it is   *)
(* greater than 4, whatever the other arguments are: a launch with more    *)
(* than 4 cameras never gets past the assertion, one with at most 4 is     *)
(* never stopped by it.                                                    *)
C2_AssertExactly ==
    (Declared /\ IsIntText(NumCameras)) =>
        /\ pc # "error"
        /\ pc = "asserted" => IntOf(NumCameras) > 4
        /\ IntOf(NumCameras) > 4 => idx <= PositionOfKind("assert_condition")
        /\ pc = "visiting" /\ idx = PositionOfKind("assert_condition") =>
              (IsActive(idx) <=> IntOf(NumCameras) > 4)
        /\ NumCameras \in {<<"5">>, <<"0", "5">>, <<"1", "0">>} => pc # "idle"
        /\ NumCameras \in {<<"4">>, <<"0">>, <<"-", "5">>, <<"0", "4">>} => pc # "asserted"

C2_Witness ==
    /\ pc = "asserted" /\ NumCameras = <<"5">>
    /\ launch_configurations["navigation"] = "False"
    /\ launch_configurations["attach_to_container"] = "True"
    /\ launch_configurations["mode"] = "dynamic"
    /\ RosbagSet

(* C3: when rosbag is set, SetParameter('use_sim_time', True) is active    *)
(* and comes before every include and node of the description, so that     *)
(* use_sim_time is true launch-wide before anything is started; when       *)
(* rosbag is left at its default the action is inactive.                   *)
C3_SimTimeForced ==
    Declared =>
        LET p == PositionOfKind("SetParameter") IN
        /\ Cardinality(PositionsOfKind("SetParameter")) = 1
        /\ actions[p].name = "use_sim_time" /\ actions[p].value = Text("True")
        /\ RosbagSet => IsActive(p)
        /\ launch_configurations["rosbag"] = "None" => ~IsActive(p)
        /\ \A k \in Launching : \A j \in PositionsOfKind(k) : p < j
        /\ (RosbagSet /\ idx > p) =>
              /\ "use_sim_time" \in DOMAIN global_params
              /\ global_params["use_sim_time"] = "True"
              /\ executed[1].kind = "SetParameter"
        /\ ~RosbagSet => DOMAIN global_params = {}

C3_Witness ==
    /\ pc = "idle" /\ RosbagSet
    /\ global_params["use_sim_time"] = "True"
    /\ ExecutedName(NvbloxPath) # {}

(* C4: the realsense include is active exactly when rosbag is not set and  *)
(* run_realsense is not false; rosbag playback is active exactly when      *)
(* rosbag is set; the driver and the playback are never both started.      *)
C4_DriverOrPlayback ==
    Declared =>
        /\ IsActive(PositionOfName(RealsensePath)) <=>
              (~RosbagSet /\ launch_configurations["run_realsense"] # "False")
        /\ IsActive(PositionOfKind("play_rosbag")) <=> RosbagSet
        /\ ~(ExecutedName(RealsensePath) # {} /\ ExecutedKind("play_rosbag") # {})
        /\ RosbagSet => ExecutedName(RealsensePath) = {}
        /\ pc = "idle" =>
              /\ ExecutedKind("play_rosbag") # {} <=> RosbagSet
              /\ ExecutedName(RealsensePath) # {} <=>
                    (~RosbagSet /\ launch_configurations["run_realsense"] # "False")

C4_Witness ==
    /\ pc = "idle" /\ RosbagSet
    /\ launch_configurations["run_realsense"] = "True"
    /\ ExecutedKind("play_rosbag") # {}
    /\ ExecutedName(RealsensePath) = {}

(* C5: with attach_to_container true no component container is started;   *)
(* with attach_to_container false exactly one is, with the log level given *)
(* by log_level; nothing else decides it.                                  *)
C5_Container ==
    Declared =>
        LET p == PositionOfKind("component_container")
            attach == launch_configurations["attach_to_container"] = "True"
        IN
        /\ Cardinality(PositionsOfKind("component_container")) = 1
        /\ IsActive(p) <=> ~attach
        /\ attach => ExecutedKind("component_container") = {}
        /\ (pc = "idle" /\ ~attach) =>
              /\ Cardinality(ExecutedKind("component_container")) = 1
              /\ \A i \in ExecutedKind("component_container") :
                    executed[i].log_level = launch_configurations["log_level"]

C5_Witness ==
    /\ pc = "idle"
    /\ launch_configurations["attach_to_container"] = "False"
    /\ \E i \in ExecutedKind("component_container") : executed[i].log_level = "debug"

C5_WitnessAttach ==
    /\ pc = "idle"
    /\ launch_configurations["attach_to_container"] = "True"
    /\ ExecutedKind("component_container") = {}

(* C6: the EKF node is emitted without a condition and always the same:    *)
(* robot_localization/ekf_node named ekf_filter_node, frames map, odom and *)
(* camera0_link, inputs /visual_slam/tracking/odometry and /imu_data, the  *)
(* two 15-element axis masks, and /odometry/filtered remapped to /odom;    *)
(* whatever the arguments, that is what the node is started with.          *)
EkfBlockIs(e) ==
    /\ e.parameters.map_frame = "map"
    /\ e.parameters.odom_frame = "odom"
    /\ e.parameters.base_link_frame = "camera0_link"
    /\ e.parameters.world_frame = "odom"
    /\ e.parameters.odom0 = "/visual_slam/tracking/odometry"
    /\ e.parameters.imu0 = "/imu_data"
    /\ Len(e.parameters.odom0_config) = 15
    /\ Len(e.parameters.imu0_config) = 15
    /\ {i \in 1..15 : e.parameters.odom0_config[i]} = {1, 2, 6, 12}
    /\ {i \in 1..15 : e.parameters.imu0_config[i]} = {4, 5, 6, 10, 11, 12, 13, 14, 15}
    /\ e.remappings = {<<"/odometry/filtered", "/odom">>}

C6_EkfVerbatim ==
    /\ Generated =>
          /\ Cardinality(PositionsOfKind("Node")) = 1
          /\ LET e == actions[PositionOfKind("Node")] IN
                /\ e.name = "ekf_filter_node"
                /\ e.package = "robot_localization"
                /\ e.executable = "ekf_node"
                /\ e.condition.kind = "none"
                /\ EkfBlockIs(e)
    /\ \A i \in ExecutedKind("Node") :
          executed[i].name = "ekf_filter_node" /\ EkfBlockIs(executed[i])
    /\ pc = "idle" => Cardinality(ExecutedKind("Node")) = 1

C6_Witness ==
    /\ pc = "idle" /\ RosbagSet
    /\ launch_configurations["navigation"] = "False"
    /\ NumCameras = <<"2">>
    /\ \E i \in ExecutedKind("Node") : EkfBlockIs(executed[i])

(* C7: with rosbag set, the visual SLAM include is executed only after the *)
(* rosbag playback has been started, although it stands before it in the   *)
(* description; and once a launch is past the camera-count assertion, the  *)
(* vslam and the nvblox include are both eventually executed.              *)
VslamAfterPlayback ==
    Declared /\ RosbagSet =>
        \A i \in ExecutedName(VslamPath) : \E j \in ExecutedKind("play_rosbag") : j < i

PastAssertion == pc = "visiting" /\ idx > PositionOfKind("assert_condition")

BothIncluded == ExecutedName(VslamPath) # {} /\ ExecutedName(NvbloxPath) # {}

C7_VslamOrder == [](VslamAfterPlayback) /\ (PastAssertion ~> BothIncluded)

C7_Witness ==
    /\ Declared /\ RosbagSet
    /\ PositionOfName(VslamPath) < PositionOfKind("play_rosbag")
    /\ \E i \in ExecutedName(VslamPath) : \E j \in ExecutedKind("play_rosbag") : j < i
    /\ ExecutedName(NvbloxPath) # {}

(* C8: the navigation, realsense, vslam and nvblox includes all receive    *)
(* the same container_name, and the container the script starts has that   *)
(* name, for every value of the container_name argument.                   *)
C8_ContainerConsistent ==
    /\ \A i, j \in ExecutedKind("IncludeLaunchDescription") :
          executed[i].arguments.container_name = executed[j].arguments.container_name
    /\ \A i \in ExecutedKind("IncludeLaunchDescription") :
          \A c \in ExecutedKind("component_container") :
             executed[c].name = executed[i].arguments.container_name

(* C9: the use_sim_time the EKF node starts with is the launch-wide one:   *)
(* true when rosbag is set, not true on the live sensor.                   *)
C9_EkfClock ==
    Declared =>
        \A i \in ExecutedKind("Node") :
            (executed[i].parameters.use_sim_time = "True") <=> RosbagSet

(* C10: when num_cameras > 4 the assertion fires before any include, the   *)
(* EKF node, the rosbag playback or the container has been executed.       *)
C10_RejectedLaunchesNothing ==
    pc = "asserted" => \A k \in Launching : ExecutedKind(k) = {}

====
